---- MODULE Spec2Model ----
(***************************************************************************)
(* A model of GameClient (src/game.js): the player and avatar stores, the  *)
(* held-key set, the connection flag and the messages handed to the        *)
(* WebSocket, driven by the events the browser delivers to the handlers.   *)
(* Every action is one handler run to completion.                          *)
(***************************************************************************)
EXTENDS Integers, Sequences, FiniteSets, TLC

VARIABLES
    ws,            \* the channel's lifecycle as the browser reports it
    connected,     \* this.connected
    myPlayerId,    \* this.myPlayerId
    myPlayer,      \* this.myPlayer
    players,       \* this.players : Map id -> player record
    avatars,       \* this.avatars : Map name -> avatar definition
    keysPressed,   \* this.keysPressed
    canvasSize,    \* <<this.canvas.width, this.canvas.height>>
    viewportX,     \* this.viewportX
    viewportY,     \* this.viewportY
    worldImageLoaded, \* whether worldImage.onload has fired
    sent,          \* the messages passed to ws.send, oldest first
    threw,         \* whether the last handler ended by an uncaught exception
    lastEvent,     \* the event the last handler was run for (a key event
                   \* with whether the key was in keysPressed when it came)
    pass,          \* the number of drawWorld runs that cleared the canvas
    pending,       \* the avatar images created by drawAvatar and not yet loaded
    surface        \* the draw calls made on the canvas since it was last cleared

vars == <<ws, connected, myPlayerId, myPlayer, players, avatars, keysPressed,
          canvasSize, viewportX, viewportY, worldImageLoaded, sent, threw,
          lastEvent, pass, pending, surface>>

-----------------------------------------------------------------------------
(* Program constants *)

worldWidth == 2048
worldHeight == 2048
avatarSize == 32

\* this.movementKeys: key code -> direction; other codes are not movement keys
movementKeys ==
    [ArrowUp |-> "up", ArrowDown |-> "down", ArrowLeft |-> "left", ArrowRight |-> "right"]

-----------------------------------------------------------------------------
(* Bounds and input domains *)

\* ws.send calls recorded before the model stops taking sending events
MaxSent == 2

Ids == {"p1", "p2"}
AvatarNames == {"cat", "dog"}
Positions == {100, 900}
\* key codes the keyboard delivers: two movement keys and one that is not
KeyCodes == {"ArrowUp", "ArrowLeft", "KeyA"}
\* window sizes the browser reports
WindowSizes == {<<800, 600>>}

\* null / undefined of a string-valued field
Null == "null"
\* null of a record-valued field
NoPlayer == [null |-> TRUE]

PlayerRecord(id, pos) ==
    [id |-> id, username |-> id, x |-> pos, y |-> pos, facing |-> "south",
     animationFrame |-> 0, avatar |-> "cat"]

PlayerRecords == {PlayerRecord(i, p) : i \in Ids, p \in Positions}

AvatarDef(name) == [name |-> name, frames |-> [south |-> <<"frame0">>]]

AvatarDefs == {AvatarDef(n) : n \in AvatarNames}

\* a JSON object keyed by player id whose records carry their own id
PlayerObjects ==
    {f \in UNION {[S -> PlayerRecords] : S \in SUBSET Ids} :
        \A i \in DOMAIN f : f[i].id = i}

\* a JSON object keyed by avatar name
AvatarObjects ==
    {f \in UNION {[S -> AvatarDefs] : S \in SUBSET AvatarNames} :
        \A n \in DOMAIN f : f[n].name = n}

-----------------------------------------------------------------------------
(* Inbound messages: JSON objects, a field that is absent is absent from DOMAIN *)

\* the player and avatar objects a join result carries: every player, or
\* one player only (which may or may not be the joining one)
JoinPlayerObjects ==
    {po \in PlayerObjects : DOMAIN po = Ids} \cup {[i \in {"p1"} |-> PlayerRecord("p1", 100)]}

JoinAvatarObjects == {ao \in AvatarObjects : "cat" \in DOMAIN ao}

JoinResults ==
    {[action |-> "join_game", success |-> TRUE, playerId |-> i, players |-> po,
      avatars |-> ao] : i \in Ids, po \in JoinPlayerObjects, ao \in JoinAvatarObjects}
    \cup
    {[action |-> "join_game", success |-> FALSE, error |-> "rejected"],
     [action |-> "join_game", success |-> FALSE, playerId |-> "p1",
      players |-> [i \in {"p1"} |-> PlayerRecord("p1", 900)],
      avatars |-> [n \in {"dog"} |-> AvatarDef("dog")]]}

PlayersMovedMsgs == {[action |-> "players_moved", players |-> po] : po \in PlayerObjects}

PlayerJoinedMsgs ==
    {[action |-> "player_joined", player |-> r, avatar |-> a] :
        r \in PlayerRecords, a \in AvatarDefs}

PlayerLeftMsgs == {[action |-> "player_left", playerId |-> i] : i \in Ids}

\* messages with a recognized action and a missing payload field, and one
\* with an action the client does not know
MalformedMsgs ==
    {[action |-> "join_game", success |-> TRUE, playerId |-> "p2",
      players |-> [i \in {"p2"} |-> PlayerRecord("p2", 100)]],
     [action |-> "players_moved"],
     [action |-> "player_joined", player |-> PlayerRecord("p2", 900)],
     [action |-> "ping"]}

Messages ==
    JoinResults \cup PlayersMovedMsgs \cup PlayerJoinedMsgs \cup PlayerLeftMsgs
    \cup MalformedMsgs

Has(message, field) == field \in DOMAIN message

-----------------------------------------------------------------------------
(* Map operations *)

MapSet(m, k, v) == [x \in DOMAIN m \cup {k} |-> IF x = k THEN v ELSE m[x]]

MapDelete(m, k) == [x \in DOMAIN m \ {k} |-> m[x]]

EmptyMap == [x \in {} |-> Null]

-----------------------------------------------------------------------------
(* The client's mutable fields that the message handlers and the redraw    *)
(* touch, as one record, so that a handler is a function of it.            *)

Client ==
    [myPlayerId |-> myPlayerId, myPlayer |-> myPlayer, players |-> players,
     avatars |-> avatars, canvasSize |-> canvasSize, viewportX |-> viewportX,
     viewportY |-> viewportY, threw |-> FALSE,
     \* what the handler did to the canvas: whether drawWorld cleared it, and
     \* the images drawAvatar created
     cleared |-> FALSE, loads |-> {}]

Throw(c) == [c EXCEPT !.threw = TRUE]

Max(a, b) == IF a >= b THEN a ELSE b
Min(a, b) == IF a <= b THEN a ELSE b

\* mutant: the bounds are applied in the other order
updateViewport_ClampOrder(c) ==
    IF c.myPlayer = NoPlayer THEN c
    ELSE LET w == c.canvasSize[1]
             h == c.canvasSize[2]
             centerX == c.myPlayer.x - (w \div 2)
             centerY == c.myPlayer.y - (h \div 2)
         IN [c EXCEPT !.viewportX = Min(Max(0, centerX), worldWidth - w),
                      !.viewportY = Min(Max(0, centerY), worldHeight - h)]

\* updateViewport: center on the local player and clamp. The window sizes of
\* the model are even, so canvas.width / 2 is the integer quotient.
updateViewport(c) ==
    IF c.myPlayer = NoPlayer THEN c
    ELSE LET w == c.canvasSize[1]
             h == c.canvasSize[2]
             centerX == c.myPlayer.x - (w \div 2)
             centerY == c.myPlayer.y - (h \div 2)
         IN [c EXCEPT !.viewportX = Max(0, Min(centerX, worldWidth - w)),
                      !.viewportY = Max(0, Min(centerY, worldHeight - h))]

\* mutant: the margin of the visibility test is half the avatar size
OnScreen_HalfSize(c, player) ==
    LET screenX == player.x - c.viewportX
        screenY == player.y - c.viewportY
    IN ~(\/ screenX < -(avatarSize \div 2)
         \/ screenX > c.canvasSize[1] + (avatarSize \div 2)
         \/ screenY < -(avatarSize \div 2)
         \/ screenY > c.canvasSize[2] + (avatarSize \div 2))

\* the visibility test of drawAvatar (lines 119-126)
OnScreen(c, player) ==
    LET screenX == player.x - c.viewportX
        screenY == player.y - c.viewportY
    IN ~(\/ screenX < -avatarSize
         \/ screenX > c.canvasSize[1] + avatarSize
         \/ screenY < -avatarSize
         \/ screenY > c.canvasSize[2] + avatarSize)

\* drawAvatar raises a TypeError when it reads frames[direction] of an avatar
\* definition that has no frames; every other path returns or draws
drawAvatarThrows(c, player) ==
    /\ Has(player, "avatar")
    /\ player.avatar \in DOMAIN c.avatars
    /\ OnScreen(c, player)
    /\ ~Has(c.avatars[player.avatar], "frames")

\* frames[frameIndex] of a JavaScript array: the element, or undefined (no
\* element) when the index is not below the length
\* mutant: the index wraps around the end of the sequence
SelectFrame_Modulo(frames, frameIndex) ==
    IF Len(frames) > 0 THEN {frames[(frameIndex % Len(frames)) + 1]} ELSE {}

SelectFrame(frames, frameIndex) ==
    IF frameIndex + 1 \in DOMAIN frames THEN {frames[frameIndex + 1]} ELSE {}

\* drawAvatar: the images it creates (none or one); the onload callback of
\* an image keeps the player record and the screen position computed here
drawAvatar(c, player) ==
    IF ~Has(player, "avatar") \/ player.avatar \notin DOMAIN c.avatars THEN {}
    ELSE IF ~OnScreen(c, player) THEN {}
    ELSE LET avatarData == c.avatars[player.avatar]
             direction == IF Has(player, "facing") THEN player.facing ELSE "south"
             frameIndex == IF Has(player, "animationFrame") THEN player.animationFrame ELSE 0
         IN IF ~Has(avatarData, "frames") \/ direction \notin DOMAIN avatarData.frames
            THEN {}
            ELSE {[player |-> player,
                   screenX |-> player.x - c.viewportX,
                   screenY |-> player.y - c.viewportY,
                   src |-> src] : src \in SelectFrame(avatarData.frames[direction], frameIndex)}

drawAvatars(c) ==
    IF \E id \in DOMAIN c.players : drawAvatarThrows(c, c.players[id])
    THEN Throw(c)
    ELSE [c EXCEPT !.loads = UNION {drawAvatar(c, c.players[id]) : id \in DOMAIN c.players}]

\* drawWorld: this.worldImage is set by loadWorldMap during construction, so
\* the early return is never taken; the draw calls change no field.
drawWorld(c) == drawAvatars(updateViewport([c EXCEPT !.cleared = TRUE]))

\* for (const [playerId, playerData] of Object.entries(obj)) { players.set;
\* if (playerId === this.myPlayerId) this.myPlayer = playerData }
RECURSIVE StorePlayers(_, _, _)
StorePlayers(c, obj, todo) ==
    IF todo = {} THEN c
    ELSE LET playerId == CHOOSE k \in todo : TRUE
             playerData == obj[playerId]
             c1 == [c EXCEPT !.players = MapSet(c.players, playerId, playerData)]
             c2 == IF playerId = c.myPlayerId
                   THEN [c1 EXCEPT !.myPlayer = playerData] ELSE c1
         IN StorePlayers(c2, obj, todo \ {playerId})

\* for (const [avatarName, avatarData] of Object.entries(obj)) avatars.set
RECURSIVE StoreAvatars(_, _, _)
StoreAvatars(c, obj, todo) ==
    IF todo = {} THEN c
    ELSE LET avatarName == CHOOSE k \in todo : TRUE
         IN StoreAvatars([c EXCEPT !.avatars = MapSet(c.avatars, avatarName, obj[avatarName])],
                         obj, todo \ {avatarName})

\* mutant: the join result is substituted for the stores instead of merged
handleJoinGameResponse_Replace(c, message) ==
    LET c1 == [c EXCEPT !.myPlayerId =
                   IF Has(message, "playerId") THEN message.playerId ELSE Null,
                        !.players = EmptyMap, !.avatars = EmptyMap]
    IN IF ~Has(message, "players") THEN Throw(c1)
       ELSE LET c2 == StorePlayers(c1, message.players, DOMAIN message.players)
            IN IF ~Has(message, "avatars") THEN Throw(c2)
               ELSE drawWorld(StoreAvatars(c2, message.avatars, DOMAIN message.avatars))

handleJoinGameResponse(c, message) ==
    LET c1 == [c EXCEPT !.myPlayerId =
                   IF Has(message, "playerId") THEN message.playerId ELSE Null]
    IN IF ~Has(message, "players") THEN Throw(c1)
       ELSE LET c2 == StorePlayers(c1, message.players, DOMAIN message.players)
            IN IF ~Has(message, "avatars") THEN Throw(c2)
               ELSE drawWorld(StoreAvatars(c2, message.avatars, DOMAIN message.avatars))

\* mutant: the message is taken for the whole player set
handlePlayersMoved_Replace(c, message) ==
    IF ~Has(message, "players") THEN Throw(c)
    ELSE drawWorld(StorePlayers([c EXCEPT !.players = EmptyMap], message.players,
                                DOMAIN message.players))

\* mutant: only players already in the store are updated
handlePlayersMoved_KnownOnly(c, message) ==
    IF ~Has(message, "players") THEN Throw(c)
    ELSE drawWorld(StorePlayers(c, message.players,
                                DOMAIN message.players \cap DOMAIN c.players))

handlePlayersMoved(c, message) ==
    IF ~Has(message, "players") THEN Throw(c)
    ELSE drawWorld(StorePlayers(c, message.players, DOMAIN message.players))

\* mutant: a join for an id already in the store drops the stored player
handlePlayerJoined_Toggle(c, message) ==
    IF ~Has(message, "player") THEN Throw(c)
    ELSE LET c1 == IF message.player.id \in DOMAIN c.players
                   THEN [c EXCEPT !.players = MapDelete(c.players, message.player.id)]
                   ELSE [c EXCEPT !.players = MapSet(c.players, message.player.id, message.player)]
         IN IF ~Has(message, "avatar") THEN Throw(c1)
            ELSE [c1 EXCEPT !.avatars = MapSet(c.avatars, message.avatar.name, message.avatar)]

handlePlayerJoined(c, message) ==
    IF ~Has(message, "player") THEN Throw(c)
    ELSE LET c1 == [c EXCEPT !.players = MapSet(c.players, message.player.id, message.player)]
         IN IF ~Has(message, "avatar") THEN Throw(c1)
            ELSE [c1 EXCEPT !.avatars = MapSet(c.avatars, message.avatar.name, message.avatar)]

handlePlayerLeft(c, message) ==
    IF ~Has(message, "playerId") THEN c
    ELSE [c EXCEPT !.players = MapDelete(c.players, message.playerId)]

\* mutant: the join result is applied whatever its success flag says
handleServerMessage_IgnoresSuccess(c, message) ==
    CASE message.action = "join_game" -> handleJoinGameResponse(c, message)
      [] message.action = "players_moved" -> handlePlayersMoved(c, message)
      [] message.action = "player_joined" -> handlePlayerJoined(c, message)
      [] message.action = "player_left" -> handlePlayerLeft(c, message)
      [] OTHER -> c

handleServerMessage(c, message) ==
    CASE message.action = "join_game" ->
            IF message.success THEN handleJoinGameResponse(c, message) ELSE c
      [] message.action = "players_moved" -> handlePlayersMoved(c, message)
      [] message.action = "player_joined" -> handlePlayerJoined(c, message)
      [] message.action = "player_left" -> handlePlayerLeft(c, message)
      [] OTHER -> c

-----------------------------------------------------------------------------
(* Outbound messages *)

JoinMessage == [action |-> "join_game", username |-> "jasleen"]
MoveMessage(direction) == [action |-> "move", direction |-> direction]
StopMessage == [action |-> "stop"]

\* each of these is the value of `sent` after the call

\* mutant: the handshake reads the flag as it was before onopen set it
joinGame_BeforeFlag(conn) == IF ~connected THEN sent ELSE Append(sent, JoinMessage)

joinGame(conn) == IF ~conn THEN sent ELSE Append(sent, JoinMessage)

\* mutant: a move is sent only when no key was held before
startMovement_IdleOnly(direction) ==
    IF ~connected \/ keysPressed # {} THEN sent ELSE Append(sent, MoveMessage(direction))

\* mutant: the connected check is missing
startMovement_Unguarded(direction) == Append(sent, MoveMessage(direction))

startMovement(direction) ==
    IF ~connected THEN sent ELSE Append(sent, MoveMessage(direction))

\* mutant: the held-key check is missing
stopMovement_Always(keys) ==
    IF ~connected THEN sent ELSE Append(sent, StopMessage)

stopMovement(keys) ==
    IF ~connected THEN sent
    ELSE IF Cardinality(keys) = 0 THEN Append(sent, StopMessage) ELSE sent

-----------------------------------------------------------------------------
(* State after the constructor: init() has run, the socket is connecting *)

Init ==
    /\ ws = "CONNECTING"
    /\ connected = FALSE
    /\ myPlayerId = Null
    /\ myPlayer = NoPlayer
    /\ players = EmptyMap
    /\ avatars = EmptyMap
    /\ keysPressed = {}
    /\ canvasSize \in WindowSizes
    /\ viewportX = 0
    /\ viewportY = 0
    /\ worldImageLoaded = FALSE
    /\ sent = <<>>
    /\ threw = FALSE
    /\ lastEvent = [type |-> "init"]
    /\ pass = 0
    /\ pending = {}
    /\ surface = {}

Install(c) ==
    /\ myPlayerId' = c.myPlayerId
    /\ myPlayer' = c.myPlayer
    /\ players' = c.players
    /\ avatars' = c.avatars
    /\ canvasSize' = c.canvasSize
    /\ viewportX' = c.viewportX
    /\ viewportY' = c.viewportY
    /\ threw' = c.threw

storeVars == <<myPlayerId, myPlayer, players, avatars, canvasSize, viewportX, viewportY>>

\* no handler runs between the error event and the close event that follows
\* it: the browser fires both from one task
Dispatching == ws # "FAILED"

\* ws.onopen
OnOpen ==
    /\ ws = "CONNECTING"
    /\ ws' = "OPEN"
    /\ connected' = TRUE
    /\ sent' = joinGame(TRUE)
    /\ threw' = FALSE
    /\ lastEvent' = [type |-> "open"]
    /\ UNCHANGED <<storeVars, keysPressed, worldImageLoaded>>

\* ws.onmessage
OnMessage(message) ==
    /\ ws = "OPEN"
    /\ Install(handleServerMessage(Client, message))
    /\ lastEvent' = [type |-> "message", data |-> message]
    /\ UNCHANGED <<ws, connected, keysPressed, worldImageLoaded, sent>>

\* mutant: the error handler resets the flag
OnError_Disconnects ==
    /\ ws \in {"CONNECTING", "OPEN"}
    /\ ws' = "FAILED"
    /\ connected' = FALSE
    /\ threw' = FALSE
    /\ lastEvent' = [type |-> "error"]
    /\ UNCHANGED <<storeVars, keysPressed, worldImageLoaded, sent>>

\* ws.onerror: logs only
OnError ==
    /\ ws \in {"CONNECTING", "OPEN"}
    /\ ws' = "FAILED"
    /\ threw' = FALSE
    /\ lastEvent' = [type |-> "error"]
    /\ UNCHANGED <<connected, storeVars, keysPressed, worldImageLoaded, sent>>

\* mutant: the close handler forgets the local player
OnClose_ClearsIdentity ==
    /\ ws \in {"OPEN", "FAILED"}
    /\ ws' = "CLOSED"
    /\ connected' = FALSE
    /\ myPlayerId' = Null
    /\ myPlayer' = NoPlayer
    /\ threw' = FALSE
    /\ lastEvent' = [type |-> "close"]
    /\ UNCHANGED <<players, avatars, canvasSize, viewportX, viewportY, keysPressed,
                   worldImageLoaded, sent>>

\* ws.onclose
OnClose ==
    /\ ws \in {"OPEN", "FAILED"}
    /\ ws' = "CLOSED"
    /\ connected' = FALSE
    /\ threw' = FALSE
    /\ lastEvent' = [type |-> "close"]
    /\ UNCHANGED <<storeVars, keysPressed, worldImageLoaded, sent>>

\* document keydown listener, taken while fewer than max messages were sent
KeyDownWithin(key, max) ==
    /\ Dispatching
    /\ Len(sent) < max
    /\ IF key \in DOMAIN movementKeys /\ key \notin keysPressed
       THEN /\ keysPressed' = keysPressed \cup {key}
            /\ sent' = startMovement(movementKeys[key])
       ELSE UNCHANGED <<keysPressed, sent>>
    /\ threw' = FALSE
    /\ lastEvent' = [type |-> "keydown", code |-> key, held |-> key \in keysPressed]
    /\ UNCHANGED <<ws, connected, storeVars, worldImageLoaded>>

KeyDown(key) == KeyDownWithin(key, MaxSent)

\* document keyup listener, taken while fewer than max messages were sent
KeyUpWithin(key, max) ==
    /\ Dispatching
    /\ Len(sent) < max
    /\ IF key \in DOMAIN movementKeys
       THEN /\ keysPressed' = keysPressed \ {key}
            /\ sent' = stopMovement(keysPressed \ {key})
       ELSE UNCHANGED <<keysPressed, sent>>
    /\ threw' = FALSE
    /\ lastEvent' = [type |-> "keyup", code |-> key, held |-> key \in keysPressed]
    /\ UNCHANGED <<ws, connected, storeVars, worldImageLoaded>>

KeyUp(key) == KeyUpWithin(key, MaxSent)

\* window resize listener
OnResize(size) ==
    /\ Dispatching
    /\ Install(drawWorld([Client EXCEPT !.canvasSize = size]))
    /\ lastEvent' = [type |-> "resize", size |-> size]
    /\ UNCHANGED <<ws, connected, keysPressed, worldImageLoaded, sent>>

\* worldImage.onload
OnWorldImageLoad ==
    /\ Dispatching
    /\ ~worldImageLoaded
    /\ worldImageLoaded' = TRUE
    /\ Install(drawWorld(Client))
    /\ lastEvent' = [type |-> "load"]
    /\ UNCHANGED <<ws, connected, keysPressed, sent>>

canvasVars == <<pass, pending, surface>>

\* No draw call and no image load writes a field of the client, so the
\* canvas can be left out of the picture: Spec does not follow it.
CanvasNotFollowed == UNCHANGED canvasVars

Next ==
    \/ OnOpen /\ CanvasNotFollowed
    \/ \E message \in Messages : OnMessage(message) /\ CanvasNotFollowed
    \/ OnError /\ CanvasNotFollowed
    \/ OnClose /\ CanvasNotFollowed
    \/ \E key \in KeyCodes : KeyDown(key) /\ CanvasNotFollowed
    \/ \E key \in KeyCodes : KeyUp(key) /\ CanvasNotFollowed
    \/ \E size \in WindowSizes : OnResize(size) /\ CanvasNotFollowed
    \/ OnWorldImageLoad /\ CanvasNotFollowed

Spec == Init /\ [][Next]_vars

-----------------------------------------------------------------------------
(* Vocabulary of the properties *)

IsMessage(e) == e.type = "message"

\* the handler of a message with this action ran over the payload field it needs
Handled(e, action, field) ==
    /\ IsMessage(e)
    /\ e.data.action = action
    /\ Has(e.data, field)

JoinHandled(e) ==
    /\ Handled(e, "join_game", "players")
    /\ Has(e.data, "avatars")
    /\ e.data.success

\* a store after the entries of obj were written over it
Overwritten(store, obj) ==
    [k \in DOMAIN store \cup DOMAIN obj |-> IF k \in DOMAIN obj THEN obj[k] ELSE store[k]]

Without(store, k) == [x \in DOMAIN store \ {k} |-> store[x]]

Single(k, v) == [x \in {k} |-> v]

Last(seq) == seq[Len(seq)]

-----------------------------------------------------------------------------
\* C1: every handled message leaves the player store holding exactly what it
\* held before, overwritten by the records the message upserts (join result,
\* players_moved, player_joined) or less the id it removes (player_left): ids
\* a players_moved does not mention stay, the latest record of an id wins.
C1_LastWriteWins ==
    [][ IsMessage(lastEvent') =>
          LET m == lastEvent'.data
          IN CASE JoinHandled(lastEvent') -> players' = Overwritten(players, m.players)
               [] Handled(lastEvent', "players_moved", "players") ->
                      players' = Overwritten(players, m.players)
               [] Handled(lastEvent', "player_joined", "player") ->
                      players' = Overwritten(players, Single(m.player.id, m.player))
               [] Handled(lastEvent', "player_left", "playerId") ->
                      players' = Without(players, m.playerId)
               [] OTHER -> TRUE ]_vars

\* a players_moved naming p1 alone was handled: p2 is still stored and p1
\* holds the record the message carried
C1_Witness ==
    /\ Handled(lastEvent, "players_moved", "players")
    /\ DOMAIN lastEvent.data.players = {"p1"}
    /\ DOMAIN players = {"p1", "p2"}
    /\ players["p1"] = lastEvent.data.players["p1"]

\* C2 (as claimed): right after a successful join result the local identity
\* is the assigned id and the stores hold exactly what the message carried.
C2_JoinReplacesStores ==
    JoinHandled(lastEvent) =>
        /\ myPlayerId = lastEvent.data.playerId
        /\ players = lastEvent.data.players
        /\ avatars = lastEvent.data.avatars

\* C2 (amended): a successful join result sets the local identity to the
\* assigned id and writes the carried players and avatars over the stores;
\* entries under ids and names it does not carry are kept.
C2_JoinMergesIntoStores ==
    [][ JoinHandled(lastEvent') =>
          /\ myPlayerId' = lastEvent'.data.playerId
          /\ players' = Overwritten(players, lastEvent'.data.players)
          /\ avatars' = Overwritten(avatars, lastEvent'.data.avatars) ]_vars

\* a join result carrying p1 alone was handled and p2, stored by an earlier
\* message, is still there
C2_Witness ==
    /\ JoinHandled(lastEvent)
    /\ DOMAIN lastEvent.data.players = {"p1"}
    /\ myPlayerId = lastEvent.data.playerId
    /\ "p2" \in DOMAIN players

\* C3: after a players_moved is handled no exception was raised and every
\* id the message names is stored with the record it carried, whatever the
\* store held before.
C3_MovedUnknownIdInserted ==
    Handled(lastEvent, "players_moved", "players") =>
        /\ ~threw
        /\ \A id \in DOMAIN lastEvent.data.players :
              /\ id \in DOMAIN players
              /\ players[id] = lastEvent.data.players[id]

\* a players_moved was handled before any join result or player_joined: the
\* store holds the players it named and nothing else
C3_Witness ==
    /\ Handled(lastEvent, "players_moved", "players")
    /\ myPlayerId = Null
    /\ avatars = EmptyMap
    /\ DOMAIN players = DOMAIN lastEvent.data.players
    /\ players # EmptyMap
    /\ ~threw

\* C4: in the state a player_joined message leaves, handling the same
\* message again changes neither the player store nor the avatar store.
C4_PlayerJoinedIdempotent ==
    Handled(lastEvent, "player_joined", "player") =>
        LET again == handleServerMessage(Client, lastEvent.data)
        IN /\ again.players = players
           /\ again.avatars = avatars

\* a player_joined was handled over a store that holds other entries too
C4_Witness ==
    /\ Handled(lastEvent, "player_joined", "player")
    /\ Has(lastEvent.data, "avatar")
    /\ ws = "OPEN"
    /\ players[lastEvent.data.player.id] = lastEvent.data.player
    /\ avatars[lastEvent.data.avatar.name] = lastEvent.data.avatar
    /\ Cardinality(DOMAIN players) = 2

-----------------------------------------------------------------------------
(* Key events and what a step hands to the socket *)

IsKeyEvent(e) == e.type \in {"keydown", "keyup"}

IsMovementKey(code) == code \in DOMAIN movementKeys

\* the step passed exactly this message to ws.send
Sends(message) == sent' = Append(sent, message)

SendsNothing == sent' = sent

\* C5: a step that sends stop is a key-up that leaves no movement key held;
\* a key-up that leaves a movement key held sends nothing; and, while
\* connected, the key-up that releases the last held key sends stop.
C5_StopOnlyWhenAllReleased ==
    [][ /\ Sends(StopMessage) => (lastEvent'.type = "keyup" /\ keysPressed' = {})
        /\ (lastEvent'.type = "keyup" /\ keysPressed' # {}) => SendsNothing
        /\ (/\ lastEvent'.type = "keyup"
            /\ lastEvent'.code \in keysPressed
            /\ keysPressed' = {}
            /\ connected) => Sends(StopMessage) ]_vars

\* connected with two keys down, one was released: the other is still held
\* and no stop has been sent
C5_Witness ==
    /\ lastEvent.type = "keyup"
    /\ lastEvent.held
    /\ keysPressed # {}
    /\ connected
    /\ sent = <<JoinMessage>>

\* C6 (as claimed): a key event that sends an intent takes the held-key set
\* from empty to non-empty or from non-empty to empty.
C6_IntentsOnlyAtIdleMovingTransitions ==
    [][ (IsKeyEvent(lastEvent') /\ ~SendsNothing) =>
            ((keysPressed = {}) # (keysPressed' = {})) ]_vars

\* C6 (amended): while connected, a key-down of a movement key that is not
\* held sends move with that key's direction, whether or not another key is
\* held, and a key-up of a movement key that leaves none held sends stop;
\* every other key event sends nothing.
C6_IntentPerKeyEvent ==
    [][ /\ lastEvent'.type = "keydown" =>
              IF connected /\ IsMovementKey(lastEvent'.code) /\ lastEvent'.code \notin keysPressed
              THEN Sends(MoveMessage(movementKeys[lastEvent'.code]))
              ELSE SendsNothing
        /\ lastEvent'.type = "keyup" =>
              IF connected /\ IsMovementKey(lastEvent'.code) /\ keysPressed' = {}
              THEN Sends(StopMessage)
              ELSE SendsNothing ]_vars

\* a second movement key was pressed while one was held, and its move was sent
C6_Witness ==
    /\ lastEvent.type = "keydown"
    /\ ~lastEvent.held
    /\ Cardinality(keysPressed) = 2
    /\ sent # <<>>
    /\ Last(sent) = MoveMessage(movementKeys[lastEvent.code])

\* C7: a step that sends move or stop starts in a state where the client is
\* connected and the socket is open, and the message is the intent of the
\* key event of that very step; no other step sends an intent, so an intent
\* dropped while not connected is never sent afterwards.
C7_NoIntentUnlessConnected ==
    [][ /\ ~SendsNothing =>
              \/ lastEvent'.type = "open" /\ Sends(JoinMessage)
              \/ /\ lastEvent'.type = "keydown"
                 /\ IsMovementKey(lastEvent'.code)
                 /\ Sends(MoveMessage(movementKeys[lastEvent'.code]))
                 /\ connected /\ ws = "OPEN"
              \/ /\ lastEvent'.type = "keyup"
                 /\ Sends(StopMessage)
                 /\ connected /\ ws = "OPEN"
        /\ (~connected /\ IsKeyEvent(lastEvent')) => SendsNothing ]_vars

\* a key pressed before the socket opened is still held when onopen has run:
\* only the handshake has been sent
C7_Witness ==
    /\ lastEvent.type = "open"
    /\ connected
    /\ keysPressed # {}
    /\ sent = <<JoinMessage>>

\* C8: once the client is connected the handshake has been sent; it is the
\* first message handed to the socket and is never sent again.
C8_JoinFirstAndOnce ==
    /\ connected => sent # <<>>
    /\ lastEvent.type = "open" => sent = <<JoinMessage>>
    /\ sent # <<>> => sent[1] = JoinMessage
    /\ \A i \in 2..Len(sent) : sent[i] # JoinMessage

\* a move was sent after the handshake
C8_Witness ==
    /\ Len(sent) = 2
    /\ sent[1] = JoinMessage
    /\ sent[2].action = "move"

-----------------------------------------------------------------------------
(* The camera over wide inputs: the local player anywhere in and around    *)
(* the world, windows smaller than, equal to and larger than the world.    *)

ViewPositions == {-40, 0, 400, 1024, 2048, 2100}

ViewWindowSizes == {<<800, 600>>, <<2048, 2048>>, <<2100, 600>>, <<800, 2200>>}

ViewRecord(x, y) == [PlayerRecord("p1", x) EXCEPT !.y = y]

ViewMessages ==
    {[action |-> "join_game", success |-> TRUE, playerId |-> "p1",
      players |-> Single("p1", ViewRecord(x, y)),
      avatars |-> Single("cat", AvatarDef("cat"))] : x \in ViewPositions, y \in ViewPositions}
    \cup
    {[action |-> "players_moved", players |-> Single("p1", ViewRecord(x, y))] :
        x \in ViewPositions, y \in ViewPositions}

ViewInit ==
    /\ ws = "CONNECTING"
    /\ connected = FALSE
    /\ myPlayerId = Null
    /\ myPlayer = NoPlayer
    /\ players = EmptyMap
    /\ avatars = EmptyMap
    /\ keysPressed = {}
    /\ canvasSize \in ViewWindowSizes
    /\ viewportX = 0
    /\ viewportY = 0
    /\ worldImageLoaded = FALSE
    /\ sent = <<>>
    /\ threw = FALSE
    /\ lastEvent = [type |-> "init"]
    /\ pass = 0
    /\ pending = {}
    /\ surface = {}

ViewNext ==
    \/ OnOpen /\ CanvasNotFollowed
    \/ \E message \in ViewMessages : OnMessage(message) /\ CanvasNotFollowed
    \/ \E size \in ViewWindowSizes : OnResize(size) /\ CanvasNotFollowed
    \/ OnWorldImageLoad /\ CanvasNotFollowed

SpecView == ViewInit /\ [][ViewNext]_vars

\* the viewport origin on one axis is inside the world when the surface fits
\* in the world, and 0 when the surface is larger than the world
ClampedOnAxis(origin, worldSize, surfaceSize) ==
    IF surfaceSize <= worldSize
    THEN 0 <= origin /\ origin <= worldSize - surfaceSize
    ELSE origin = 0

\* C11: in every state, hence after every redraw, the viewport origin is
\* clamped on both axes for the canvas size of that state: within
\* [0, world - surface] when the surface fits, 0 when it does not.
C11_ViewportClamped ==
    /\ ClampedOnAxis(viewportX, worldWidth, canvasSize[1])
    /\ ClampedOnAxis(viewportY, worldHeight, canvasSize[2])

\* a resize to a window wider than the world has redrawn around a local
\* player away from the origin: x is pinned to 0, y is clamped inside
C11_Witness ==
    /\ lastEvent.type = "resize"
    /\ canvasSize[1] > worldWidth
    /\ myPlayer # NoPlayer
    /\ myPlayer.x > 0
    /\ viewportX = 0
    /\ viewportY > 0

-----------------------------------------------------------------------------
(* The canvas: drawWorld clears it and draws the world, drawAvatar creates *)
(* one image per avatar it decides to draw, and the onload callback of an  *)
(* image, run by the browser some time later, draws the avatar and label.  *)

\* redraws the canvas is followed through
MaxPass == 2

CanvasWindowSizes == {<<800, 600>>}

CanvasAvatar ==
    [name |-> "cat", frames |-> [south |-> <<"cat_s0", "cat_s1">>, north |-> <<"cat_n0">>]]

CanvasRecord(id, x, y, facing, animationFrame) ==
    [id |-> id, username |-> id, x |-> x, y |-> y, facing |-> facing,
     animationFrame |-> animationFrame, avatar |-> "cat"]

\* the local player: near the world origin, and far enough to move the viewport
CanvasLocalRecords ==
    {CanvasRecord("p1", 100, 100, "south", 0), CanvasRecord("p1", 1000, 1000, "south", 1)}

\* the other player: well inside the window, on and just past the line where
\* drawAvatar stops drawing, with a frame index past the sequence, facing a
\* direction with one frame and a direction the avatar has no frames for
CanvasRemoteRecords ==
    {CanvasRecord("p2", 400, 300, "south", 0),
     CanvasRecord("p2", 832, 100, "south", 1),
     CanvasRecord("p2", 833, 100, "south", 0),
     CanvasRecord("p2", 400, 300, "south", 2),
     CanvasRecord("p2", 400, 300, "north", 0),
     CanvasRecord("p2", 400, 300, "east", 0)}

CanvasMessages ==
    {[action |-> "join_game", success |-> TRUE, playerId |-> "p1",
      players |-> [i \in Ids |-> IF i = "p1" THEN CanvasRecord("p1", 100, 100, "south", 0)
                                 ELSE CanvasRecord("p2", 900, 900, "south", 0)],
      avatars |-> Single("cat", CanvasAvatar)]}
    \cup {[action |-> "players_moved", players |-> Single(r.id, r)] :
             r \in CanvasLocalRecords \cup CanvasRemoteRecords}
    \cup {[action |-> "player_joined", player |-> CanvasRecord("p2", 400, 300, "south", 0),
           avatar |-> CanvasAvatar],
          [action |-> "player_left", playerId |-> "p2"]}

\* what a handler that ended in state c did to the canvas: clearRect and the
\* world image (drawn once it has loaded), then one pending image per avatar
Painted(c) ==
    IF c.cleared
    THEN /\ pass' = pass + 1
         /\ surface' = IF worldImageLoaded' THEN {[op |-> "world", pass |-> pass + 1]} ELSE {}
         /\ pending' = pending \cup
                {[player |-> i.player, screenX |-> i.screenX, screenY |-> i.screenY,
                  src |-> i.src, pass |-> pass + 1] : i \in c.loads}
    ELSE UNCHANGED canvasVars

CanvasMessage(message) ==
    LET c == handleServerMessage(Client, message)
    IN /\ c.cleared => pass < MaxPass
       /\ OnMessage(message)
       /\ Painted(c)

CanvasResize(size) ==
    /\ pass < MaxPass
    /\ OnResize(size)
    /\ Painted(drawWorld([Client EXCEPT !.canvasSize = size]))

CanvasWorldImageLoad ==
    /\ pass < MaxPass
    /\ OnWorldImageLoad
    /\ Painted(drawWorld(Client))

\* img.onload of drawAvatar: ctx.drawImage of the avatar centred on the screen
\* position the callback kept, then drawUsernameLabel above it
AvatarDraw(image) ==
    [op |-> "avatar", pass |-> image.pass, id |-> image.player.id, src |-> image.src,
     x |-> image.screenX - (avatarSize \div 2), y |-> image.screenY - (avatarSize \div 2)]

LabelDraw(image) ==
    [op |-> "label", pass |-> image.pass, id |-> image.player.id,
     text |-> image.player.username,
     x |-> image.screenX, y |-> image.screenY - (avatarSize \div 2) - 5]

drawUsernameLabel(image) ==
    IF Has(image.player, "username") /\ image.player.username # ""
    THEN {LabelDraw(image)} ELSE {}

OnAvatarImageLoad(image) ==
    /\ image \in pending
    /\ pending' = pending \ {image}
    /\ surface' = surface \cup {AvatarDraw(image)} \cup drawUsernameLabel(image)
    /\ threw' = FALSE
    /\ lastEvent' = [type |-> "imageload", image |-> image]
    /\ UNCHANGED <<ws, connected, storeVars, keysPressed, worldImageLoaded, sent, pass>>

CanvasNext ==
    \/ OnOpen /\ CanvasNotFollowed
    \/ \E message \in CanvasMessages : CanvasMessage(message)
    \/ \E size \in CanvasWindowSizes : CanvasResize(size)
    \/ CanvasWorldImageLoad
    \/ \E image \in pending : OnAvatarImageLoad(image)

SpecCanvas == Init /\ [][CanvasNext]_vars

-----------------------------------------------------------------------------
(* C12: every handled message that mutates the player store, and every     *)
(* resize of the window, is followed at once by a full redraw: the step    *)
(* that installs the mutation is a step that clears and repaints.          *)

StoreMutated == players' # players \/ avatars' # avatars

C12_MutationsAndResizeRedraw ==
    [][(\/ IsMessage(lastEvent') /\ StoreMutated
        \/ lastEvent'.type = "resize")
       => pass' = pass + 1]_vars

-----------------------------------------------------------------------------
(* C13: once the client has joined, the cached local player is the record  *)
(* the player store holds for the local id, and is unset when the store    *)
(* holds none.                                                             *)

C13_CachedLocalPlayerIsStoreRecord ==
    myPlayerId # Null =>
        IF myPlayerId \in DOMAIN players
        THEN myPlayer = players[myPlayerId]
        ELSE myPlayer = NoPlayer

-----------------------------------------------------------------------------
(* C14: a message with an unknown action, or with a known action and a     *)
(* missing payload field, is discarded as a whole: the local id, the       *)
(* player store and the avatar store are as before it, and the client is   *)
(* still connected.                                                        *)

C14_MalformedDiscardedWhole ==
    [][(IsMessage(lastEvent') /\ lastEvent'.data \in MalformedMsgs)
       => /\ UNCHANGED <<myPlayerId, players, avatars>>
          /\ connected']_vars

-----------------------------------------------------------------------------
(* C15: a join_game result whose success flag is false changes nothing:    *)
(* the local id, the cached local player, the player store and the avatar  *)
(* store are as before, whatever else the message carries.                 *)

JoinFailed(e) ==
    /\ IsMessage(e)
    /\ e.data.action = "join_game"
    /\ ~e.data.success

C15_FailedJoinChangesNothing ==
    [][JoinFailed(lastEvent') => UNCHANGED <<myPlayerId, myPlayer, players, avatars>>]_vars

\* a failed join that carried an id, a player and an avatar has been handled,
\* and none of the three is in the client's state
C15_Witness ==
    /\ JoinFailed(lastEvent)
    /\ Has(lastEvent.data, "players")
    /\ myPlayerId # lastEvent.data.playerId
    /\ \A id \in DOMAIN lastEvent.data.players :
          id \notin DOMAIN players \/ players[id] # lastEvent.data.players[id]
    /\ \A name \in DOMAIN lastEvent.data.avatars : name \notin DOMAIN avatars

-----------------------------------------------------------------------------
(* C16: a player that passes culling and whose avatar has a non-empty      *)
(* frame sequence for its facing direction is drawn with the frame at      *)
(* animationFrame modulo the length of the sequence, so also when the      *)
(* index is at or past the end.                                            *)

\* the frame sequence the avatar store of c holds for the player's direction
FramesFor(c, player) ==
    IF /\ player.avatar \in DOMAIN c.avatars
       /\ player.facing \in DOMAIN c.avatars[player.avatar].frames
    THEN c.avatars[player.avatar].frames[player.facing]
    ELSE <<>>

HasFrames(c, player) == OnScreen(c, player) /\ Len(FramesFor(c, player)) > 0

\* the images a redraw created for a player, by the source they were given
ImagesOf(images, redraw, player) ==
    {image.src : image \in {i \in images : i.pass = redraw /\ i.player = player}}

Redrawn == pass' = pass + 1

C16_FrameSelectedModuloLength ==
    [][Redrawn =>
        \A id \in DOMAIN players' :
            LET player == players'[id]
                frames == FramesFor(Client', player)
            IN HasFrames(Client', player) =>
                 ImagesOf(pending', pass', player)
                   = {frames[(player.animationFrame % Len(frames)) + 1]}]_vars

\* the amended statement: the frame at the index itself, and no image at all
\* when the index is at or past the end of the sequence
C16_FrameSelectedByIndexOrSkipped ==
    [][Redrawn =>
        \A id \in DOMAIN players' :
            LET player == players'[id]
                frames == FramesFor(Client', player)
            IN HasFrames(Client', player) =>
                 ImagesOf(pending', pass', player)
                   = IF player.animationFrame < Len(frames)
                     THEN {frames[player.animationFrame + 1]}
                     ELSE {}]_vars

\* the last redraw met a visible player whose index is past the end of its
\* two-frame sequence and created no image for it, and created one for the
\* local player, whose index is inside
C16_Witness ==
    /\ Handled(lastEvent, "players_moved", "players")
    /\ "p2" \in DOMAIN lastEvent.data.players
    /\ "p2" \in DOMAIN players
    /\ HasFrames(Client, players["p2"])
    /\ players["p2"].animationFrame >= Len(FramesFor(Client, players["p2"]))
    /\ ImagesOf(pending, pass, players["p2"]) = {}
    /\ myPlayer # NoPlayer
    /\ ImagesOf(pending, pass, myPlayer) # {}

-----------------------------------------------------------------------------
(* C17: in one avatar pass a player whose avatar box lies fully outside    *)
(* the surface expanded by half the avatar size produces no draw call, and *)
(* a player whose box meets that region produces exactly one avatar draw   *)
(* and one label draw.                                                     *)

HalfSize == avatarSize \div 2

\* the box of side avatarSize centred on the screen position of the player
\* meets the rectangle from (-HalfSize, -HalfSize) to (w + HalfSize, h + HalfSize)
BoxMeetsExpandedSurface(c, player) ==
    LET screenX == player.x - c.viewportX
        screenY == player.y - c.viewportY
    IN /\ screenX + HalfSize >= -HalfSize
       /\ screenX - HalfSize <= c.canvasSize[1] + HalfSize
       /\ screenY + HalfSize >= -HalfSize
       /\ screenY - HalfSize <= c.canvasSize[2] + HalfSize

ImagesFor(images, redraw, player) == {i \in images : i.pass = redraw /\ i.player = player}

Avatars(calls) == {d \in calls : d.op = "avatar"}
Labels(calls) == {d \in calls : d.op = "label"}

\* an image stands for the one avatar draw and the one label draw its onload
\* callback issues
C17_OneDrawPerIntersectingPlayer ==
    [][Redrawn =>
        \A id \in DOMAIN players' :
            Cardinality(ImagesFor(pending', pass', players'[id]))
              = IF BoxMeetsExpandedSurface(Client', players'[id]) THEN 1 ELSE 0]_vars

\* the avatar store has a frame at the player's index for its direction
FrameKnown(c, player) == player.animationFrame < Len(FramesFor(c, player))

\* the amended statement: one image per player whose box meets the region and
\* whose frame is known, none for any other player; and the callback of an
\* image, when it runs, issues one avatar draw centred on the position the
\* pass computed and one label draw above it
C17_OneImagePerVisibleKnownFrame ==
    [][/\ Redrawn =>
            \A id \in DOMAIN players' :
                Cardinality(ImagesFor(pending', pass', players'[id]))
                  = IF /\ BoxMeetsExpandedSurface(Client', players'[id])
                       /\ FrameKnown(Client', players'[id])
                    THEN 1 ELSE 0
       /\ lastEvent'.type = "imageload" =>
            LET image == lastEvent'.image
                issued == surface' \ surface
            IN /\ image \in pending
               /\ Avatars(issued) =
                    {[op |-> "avatar", pass |-> image.pass, id |-> image.player.id,
                      src |-> image.src,
                      x |-> image.screenX - HalfSize, y |-> image.screenY - HalfSize]}
               /\ Cardinality(Labels(issued)) = IF image.player.username = "" THEN 0 ELSE 1
               /\ issued = Avatars(issued) \cup Labels(issued)]_vars

\* the image of a player that stands exactly on the line, its box touching
\* the expanded surface from outside, has loaded and has been drawn
C17_Witness ==
    /\ lastEvent.type = "imageload"
    /\ lastEvent.image.screenX = canvasSize[1] + avatarSize
    /\ AvatarDraw(lastEvent.image) \in surface
    /\ LabelDraw(lastEvent.image) \in surface

-----------------------------------------------------------------------------
(* C18: rendering is synchronous: the avatar and label draws of a redraw   *)
(* are issued before the next event is handled, so no avatar on the canvas *)
(* was drawn by the image callback of an earlier redraw, after a later     *)
(* redraw cleared it, at a position that the player's position or the      *)
(* viewport has since left.                                                *)

\* the draw is where the player store and the viewport now put the player
AtCurrentPosition(d) ==
    /\ d.id \in DOMAIN players
    /\ d.x = players[d.id].x - viewportX - HalfSize
    /\ d.y = players[d.id].y - viewportY - HalfSize

C18_NoStaleDrawAfterLaterRedraw ==
    \A d \in Avatars(surface) : d.pass = pass \/ AtCurrentPosition(d)

-----------------------------------------------------------------------------
(* The keyboard over a longer run of sent messages, the canvas and the     *)
(* inbound messages left out.                                              *)

\* ws.send calls recorded before the keyboard run stops taking key events
MaxIntents == 4

InputNext ==
    \/ OnOpen /\ CanvasNotFollowed
    \/ OnError /\ CanvasNotFollowed
    \/ OnClose /\ CanvasNotFollowed
    \/ \E key \in KeyCodes : KeyDownWithin(key, MaxIntents) /\ CanvasNotFollowed
    \/ \E key \in KeyCodes : KeyUpWithin(key, MaxIntents) /\ CanvasNotFollowed

SpecInput == Init /\ [][InputNext]_vars

\* the direction of the latest move message of a sequence of sent messages
LastMoveDirection(s) ==
    LET moves == {i \in DOMAIN s : s[i].action = "move"}
    IN IF moves = {} THEN Null
       ELSE s[CHOOSE i \in moves : \A j \in moves : j <= i].direction

\* C19: when several movement keys are held, the direction last sent is that
\* of the most recently pressed key that is still held: when, while connected,
\* the release of one of two held keys leaves held a key whose own move was
\* sent, the direction last sent is that key's.
C19_LastDirectionOfLatestHeldKey ==
    [][(/\ lastEvent'.type = "keyup"
        /\ lastEvent'.held
        /\ connected
        /\ Cardinality(keysPressed') = 1)
       => \A key \in keysPressed' :
             (\E i \in DOMAIN sent : sent[i] = MoveMessage(movementKeys[key]))
             => LastMoveDirection(sent') = movementKeys[key]]_vars

-----------------------------------------------------------------------------
(* C20: held keys and sent intents agree over the life of the connection:  *)
(* whenever the client is connected and a movement key is held, a move was *)
(* sent since the later of the connect and the last stop; and every stop   *)
(* that was sent follows a move sent since the stop before it.             *)

\* onopen sends the join message, so it marks the connect in what was sent
ConnectOrStop(s) == {i \in DOMAIN s : s[i].action \in {"join_game", "stop"}}

MoveAfter(s, from, to) == \E i \in DOMAIN s : from < i /\ i < to /\ s[i].action = "move"

C20_HeldKeysMatchSentIntents ==
    /\ (connected /\ keysPressed # {}) =>
          \A i \in ConnectOrStop(sent) \cup {0} :
              (\A j \in ConnectOrStop(sent) : j <= i) => MoveAfter(sent, i, Len(sent) + 1)
    /\ \A i \in DOMAIN sent :
          sent[i].action = "stop" =>
              \A j \in (ConnectOrStop(sent) \cup {0}) :
                  (j < i /\ \A k \in ConnectOrStop(sent) : k < i => k <= j)
                  => MoveAfter(sent, j, i)

====
